---- MODULE Spec2Model ----
(***************************************************************************)
(* Model of tool_scripts/fix_scene.py: the scene mutation pass             *)
(* (modify_environment / add_colliders), the transform snapshot verifier   *)
(* (capture_transforms / verify_positions_unchanged / transforms_are_equal)*)
(* and the process life cycle of the script (__main__).                    *)
(*                                                                         *)
(* Prim names are sequences of tokens ("rug_floor_01" is                   *)
(* <<"rug", "_floor", "_01">>); Python's `marker in name` is a contiguous  *)
(* sub-sequence search, and tokens that differ only in case are different  *)
(* tokens.  Usd.PrimRange visits active prims in pre-order; all prims of   *)
(* the model are active.                                                   *)
(***************************************************************************)
EXTENDS Integers, Sequences, FiniteSets, TLC

VARIABLES
    usd_scene,                  \* the scene tree as imported from the USD file
    stage,                      \* the live scene graph (prim id -> prim)
    coarse_approximation_type,  \* args.coarse_approximation
    hide_top_walls,             \* args.hide_walls
    runs,                       \* completed runs of modify_environment
    usd_exists,                 \* os.path.exists(args.usd_path)
    pc,                         \* position of the script
    app,                        \* simulation_app: "none", "running", "closed"
    window_open,                \* what simulation_app.is_running() reports
    frames,                     \* simulation_app.update() calls of the viewer loop
    load_calls,                 \* calls of infinigen_utils.load_env
    exit_status,                \* process exit status, -1 while running
    before_transforms,          \* snapshot taken before the pass
    after_transforms,           \* snapshot taken after the pass
    position_preserved          \* result of verify_positions_unchanged

vars == <<usd_scene, stage, coarse_approximation_type, hide_top_walls, runs,
          usd_exists, pc, app, window_open, frames, load_calls, exit_status,
          before_transforms, after_transforms, position_preserved>>

(**************************** bounds ***************************************)
MaxNodes == 2
MaxRuns == 2
MaxFrames == 2
MaxCoord == 2

(**************************** program constants ****************************)
\* tolerance=1e-6, in units of 0.5e-6 (coordinates are multiples of 0.5e-6)
Tolerance == 2

ApproximationChoices ==
    {"none", "convexDecomposition", "convexHull", "boundingSphere",
     "boundingCube", "meshSimplification", "triangleMesh"}

fine_collider_types == << <<"skirt">>, <<"_wall">>, <<"_floor">> >>
rigid_body_types == << <<"Table">>, <<"Chair">>, <<"Rug">> >>
light_markers == << <<"001", "_SPLIT", "_GLA">> >>
top_wall_markers == << <<"_exterior">>, <<"_ceiling">> >>

CollisionAPI == "UsdPhysics.CollisionAPI"
MeshCollisionAPI == "UsdPhysics.MeshCollisionAPI"
PhysxTriangleMeshCollisionAPI == "PhysxSchema.PhysxTriangleMeshCollisionAPI"
RigidBodyAPI == "UsdPhysics.RigidBodyAPI"
Schemas == {CollisionAPI, MeshCollisionAPI, PhysxTriangleMeshCollisionAPI, RigidBodyAPI}

(**************************** Python values ********************************)
PyNone == [py |-> "None", v |-> 0]
PyFloat(x) == [py |-> "float", v |-> x]

(**************************** scene trees **********************************)
PrimNames ==
    { <<"rug", "_floor", "_01">>,
      <<"Chair", "_03">>,
      <<"Table", "skirt">>,
      <<"001", "_SPLIT", "_GLA", "_light">>,
      <<"north", "_exterior">>,
      <<"kitchen", "_ceiling">> }

PrimTypes == {"Xform", "Mesh", "Cube"}

\* the prims a scene file is assembled from: every name as a mesh, and the
\* names that matter to the visibility rules as groups and plain Gprims
AuthoredPrims ==
    { [name |-> nm, type |-> "Mesh"] : nm \in PrimNames }
    \cup { [name |-> <<"001", "_SPLIT", "_GLA", "_light">>, type |-> "Xform"],
           [name |-> <<"north", "_exterior">>, type |-> "Xform"],
           [name |-> <<"Chair", "_03">>, type |-> "Xform"],
           [name |-> <<"kitchen", "_ceiling">>, type |-> "Cube"],
           [name |-> <<"rug", "_floor", "_01">>, type |-> "Cube"] }

\* xformOp attributes authored on prim i of the file
AuthoredXform(i) ==
    [translate |-> PyFloat(i % (MaxCoord + 1)),
     rotation  |-> IF i % 2 = 1 THEN PyFloat(0) ELSE PyNone,
     scale     |-> PyFloat(1),
     orient    |-> PyNone]

NoSchemaCount == [s \in Schemas |-> 0]

NewPrim(name, type, parent, xf) ==
    [name |-> name, type |-> type, parent |-> parent,
     visibility |-> "inherited", xform |-> xf,
     apis |-> {}, applied |-> NoSchemaCount,
     collisionEnabled |-> "unset", approximation |-> "unset",
     rigidBodyEnabled |-> "unset"]

\* /Environment: an Xform without xformOp:translate
RootPrim ==
    NewPrim(<<"Environment">>, "Xform", -1,
            [translate |-> PyNone, rotation |-> PyNone,
             scale |-> PyNone, orient |-> PyNone])

\* the trees below /Environment: prim i hangs below a prim with a smaller id
SceneTrees ==
    { [i \in 0..MaxNodes |->
          IF i = 0 THEN RootPrim
          ELSE NewPrim(ap[i].name, ap[i].type, pa[i], AuthoredXform(i))] :
      ap \in [1..MaxNodes -> AuthoredPrims],
      pa \in { f \in [1..MaxNodes -> 0..(MaxNodes - 1)] :
                 \A i \in 1..MaxNodes : f[i] < i } }

EmptyStage == << >>

(**************************** name matching ********************************)
\* Python: marker in name
Contains(name, marker) ==
    \E i \in 1..(Len(name) - Len(marker) + 1) :
        SubSeq(name, i, i + Len(marker) - 1) = marker

\* Python: any(m in name for m in markers)
AnyIn(markers, name) ==
    \E k \in 1..Len(markers) : Contains(name, markers[k])

(**************************** traversal ************************************)
IsA_Mesh(p) == p.type = "Mesh"
IsA_Gprim(p) == p.type \in {"Mesh", "Cube"}

RECURSIVE PrimRange(_, _)
RECURSIVE ChildRanges(_, _, _)
\* Usd.PrimRange(prim): the prim and its descendants in pre-order
PrimRange(st, n) ==
    IF n \notin DOMAIN st THEN << >>
    ELSE <<n>> \o ChildRanges(st, n, n + 1)

\* the sub-ranges of the children of n with id >= c, in sibling order
ChildRanges(st, n, c) ==
    IF c \notin DOMAIN st THEN << >>
    ELSE (IF st[c].parent = n THEN PrimRange(st, c) ELSE << >>)
         \o ChildRanges(st, n, c + 1)

(**************************** schema application ***************************)
\* Apply without the HasAPI test: the schema is attached on every call
ApplyAPI_unchecked(p, schema) ==
    [p EXCEPT !.apis = @ \cup {schema},
              !.applied[schema] = @ + 1]

\* <Schema>.Apply(prim), as called behind a `not prim.HasAPI(<Schema>)` test
ApplyAPI(p, schema) ==
    IF schema \in p.apis THEN p
    ELSE [p EXCEPT !.apis = @ \cup {schema},
                   !.applied[schema] = @ + 1]

\* add_colliders, Gprim branch
EnableCollision(p) ==
    [ApplyAPI(p, CollisionAPI) EXCEPT !.collisionEnabled = TRUE]

\* add_colliders, Mesh branch
SetMeshCollision(p, approximation_type) ==
    IF approximation_type = "triangleMesh"
    THEN ApplyAPI(p, PhysxTriangleMeshCollisionAPI)
    ELSE [ApplyAPI(p, MeshCollisionAPI) EXCEPT !.approximation = approximation_type]

\* body of the loop of add_colliders for one desc_prim
CollidePrim(p, approximation_type) ==
    LET p1 == IF IsA_Gprim(p) THEN EnableCollision(p) ELSE p
    IN  IF IsA_Mesh(p1) THEN SetMeshCollision(p1, approximation_type) ELSE p1

RECURSIVE CollideEach(_, _, _)
CollideEach(st, order, approximation_type) ==
    IF order = << >> THEN st
    ELSE LET n == Head(order)
         IN CollideEach([st EXCEPT ![n] = CollidePrim(st[n], approximation_type)],
                        Tail(order), approximation_type)

add_colliders(st, root_prim, approximation_type) ==
    CollideEach(st, PrimRange(st, root_prim), approximation_type)

\* infinigen_utils.add_rigid_body_dynamics(prim)
add_rigid_body_dynamics(st, n) ==
    [st EXCEPT ![n] = [ApplyAPI(st[n], RigidBodyAPI) EXCEPT !.rigidBodyEnabled = TRUE]]

(**************************** visibility ***********************************)
\* hiding by collapsing the prim instead of by the visibility attribute
SetInvisible_by_scale(p) ==
    [p EXCEPT !.visibility = "invisible", !.xform.scale = PyFloat(0)]

\* prim.GetAttribute("visibility").Set("invisible")
SetInvisible(p) == [p EXCEPT !.visibility = "invisible"]

\* prim_type "" stands for the omitted (None) type filter
TypeMatches(p, prim_type) == prim_type = "" \/ p.type = prim_type

RECURSIVE FilterMatching(_, _, _, _)
FilterMatching(st, order, match_strings, prim_type) ==
    IF order = << >> THEN << >>
    ELSE LET n == Head(order)
             rest == FilterMatching(st, Tail(order), match_strings, prim_type)
         IN IF AnyIn(match_strings, st[n].name) /\ TypeMatches(st[n], prim_type)
            THEN <<n>> \o rest ELSE rest

\* infinigen_utils.find_matching_prims(match_strings, root_path, prim_type)
find_matching_prims(st, match_strings, root, prim_type) ==
    FilterMatching(st, PrimRange(st, root), match_strings, prim_type)

RECURSIVE HideEach(_, _)
HideEach(st, order) ==
    IF order = << >> THEN st
    ELSE HideEach([st EXCEPT ![Head(order)] = SetInvisible(@)], Tail(order))

\* infinigen_utils.hide_matching_prims(match_strings, root_path, prim_type)
hide_matching_prims(st, match_strings, root, prim_type) ==
    HideEach(st, find_matching_prims(st, match_strings, root, prim_type))

(**************************** modify_environment ***************************)
\* the hide_top_walls test dropped: top walls are always hidden
HidePrims_always_walls(st, root, hide) ==
    LET s1 == HideEach(st, find_matching_prims(st, light_markers, root, "Xform"))
        s2 == hide_matching_prims(s1, light_markers, root, "Xform")
    IN  hide_matching_prims(s2, top_wall_markers, root, "")

\* "Fixing ceiling lights" and "Hide top walls" part of modify_environment
HidePrims(st, root, hide) ==
    LET s1 == HideEach(st, find_matching_prims(st, light_markers, root, "Xform"))
        s2 == hide_matching_prims(s1, light_markers, root, "Xform")
    IN  IF hide THEN hide_matching_prims(s2, top_wall_markers, root, "") ELSE s2

\* the fine-collider test dropped: every mesh gets the coarse strategy
collider_approx_coarse_only(prim_name, coarse) == coarse

\* collider_approx of modify_environment
collider_approx(prim_name, coarse) ==
    IF AnyIn(fine_collider_types, prim_name) THEN "triangleMesh" ELSE coarse

\* only the first rigid body type is tested
is_rigid_body_first_only(prim_name) == Contains(prim_name, rigid_body_types[1])

\* whether modify_environment attaches rigid body dynamics to the prim
is_rigid_body(prim_name) == AnyIn(rigid_body_types, prim_name)

\* body of the loop of modify_environment for one prim of the range
ModifyPrim(st, n, coarse) ==
    IF IsA_Mesh(st[n])
    THEN LET prim_name == st[n].name
             s1 == add_colliders(st, n, collider_approx(prim_name, coarse))
         IN  IF is_rigid_body(prim_name) THEN add_rigid_body_dynamics(s1, n) ELSE s1
    ELSE st

RECURSIVE ModifyEach(_, _, _)
ModifyEach(st, order, coarse) ==
    IF order = << >> THEN st
    ELSE ModifyEach(ModifyPrim(st, Head(order), coarse), Tail(order), coarse)

modify_environment(st, root, coarse, hide) ==
    LET s1 == HidePrims(st, root, hide)
    IN  ModifyEach(s1, PrimRange(s1, root), coarse)

(**************************** specification of the pass ********************)
InitPass ==
    /\ usd_scene \in SceneTrees
    /\ stage = usd_scene
    /\ coarse_approximation_type \in ApproximationChoices
    /\ hide_top_walls \in BOOLEAN
    /\ runs = 0
    /\ usd_exists = TRUE
    /\ pc = "pass"
    /\ app = "running"
    /\ window_open = TRUE
    /\ frames = 0
    /\ load_calls = 1
    /\ exit_status = -1
    /\ before_transforms = << >>
    /\ after_transforms = << >>
    /\ position_preserved = "unset"

\* one call modify_environment("/Environment", coarse_approximation_type, hide_top_walls)
ModifyEnvironment ==
    /\ pc = "pass"
    /\ runs < MaxRuns
    /\ stage' = modify_environment(stage, 0, coarse_approximation_type, hide_top_walls)
    /\ runs' = runs + 1
    /\ UNCHANGED <<usd_scene, coarse_approximation_type, hide_top_walls, usd_exists,
                   pc, app, window_open, frames, load_calls, exit_status,
                   before_transforms, after_transforms, position_preserved>>

NextPass == ModifyEnvironment

SpecPass == InitPass /\ [][NextPass]_vars

(**************************** snapshot and verifier ************************)
\* transform_data of capture_transforms for one prim
TransformData(p) ==
    [py |-> "dict", translate |-> p.xform.translate, rotation |-> p.xform.rotation,
     scale |-> p.xform.scale, orient |-> p.xform.orient]

\* prim.HasAttribute("xformOp:translate")
HasTranslate(p) == p.xform.translate.py # "None"

RECURSIVE SeqToSet(_)
SeqToSet(sq) == IF sq = << >> THEN {} ELSE {Head(sq)} \cup SeqToSet(Tail(sq))

capture_transforms(st, root) ==
    [n \in {m \in SeqToSet(PrimRange(st, root)) : HasTranslate(st[m])} |->
        TransformData(st[n])]

Abs(x) == IF x < 0 THEN -x ELSE x

\* hasattr(transform1, '__sub__')
HasSub(t) == t.py = "float"

transforms_are_equal(transform1, transform2, tolerance) ==
    IF transform1.py = "None" \/ transform2.py = "None"
    THEN transform1 = transform2
    ELSE IF HasSub(transform1)
         THEN IF HasSub(transform2)
              THEN Abs(transform1.v - transform2.v) < tolerance
              ELSE transform1 = transform2      \* TypeError, the except branch
         ELSE transform1 = transform2

changes_detected(before, after) ==
    Cardinality({ prim_path \in DOMAIN before :
                    /\ prim_path \in DOMAIN after
                    /\ ~ transforms_are_equal(before[prim_path], after[prim_path],
                                              Tolerance) })

verify_positions_unchanged(before, after) == changes_detected(before, after) = 0

\* snapshots handed to the verifier
TransformRecords ==
    { [py |-> "dict", translate |-> PyFloat(t), rotation |-> r,
       scale |-> PyFloat(1), orient |-> PyNone] :
      t \in 0..MaxCoord, r \in {PyNone, PyFloat(0)} }

Snapshots ==
    UNION { [ps -> TransformRecords] : ps \in SUBSET (1..MaxNodes) }

InitVerify ==
    /\ usd_scene = EmptyStage
    /\ stage = EmptyStage
    /\ coarse_approximation_type = "convexHull"
    /\ hide_top_walls = TRUE
    /\ runs = 0
    /\ usd_exists = TRUE
    /\ pc = "verify"
    /\ app = "running"
    /\ window_open = TRUE
    /\ frames = 0
    /\ load_calls = 0
    /\ exit_status = -1
    /\ before_transforms \in Snapshots
    /\ after_transforms \in Snapshots
    /\ position_preserved = "unset"

\* position_preserved = verify_positions_unchanged(stage, initial, final)
VerifyPositions ==
    /\ pc = "verify"
    /\ position_preserved' =
          verify_positions_unchanged(before_transforms, after_transforms)
    /\ pc' = "verified"
    /\ UNCHANGED <<usd_scene, stage, coarse_approximation_type, hide_top_walls, runs,
                   usd_exists, app, window_open, frames, load_calls, exit_status,
                   before_transforms, after_transforms>>

NextVerify == VerifyPositions

SpecVerify == InitVerify /\ [][NextVerify]_vars

(**************************** the script ***********************************)
\* scene files of the life-cycle specification: chains of meshes
MainScenes ==
    { t \in SceneTrees :
        \A i \in 1..MaxNodes : t[i].type = "Mesh" /\ t[i].parent = i - 1 }

\* state after args = parser.parse_args(); --hide-walls is store_true with
\* default True, so args.hide_walls is True
InitMain ==
    /\ usd_scene \in MainScenes
    /\ stage = EmptyStage
    /\ coarse_approximation_type \in ApproximationChoices
    /\ hide_top_walls = TRUE
    /\ runs = 0
    /\ usd_exists \in BOOLEAN
    /\ pc = "parsed"
    /\ app = "none"
    /\ window_open = FALSE
    /\ frames = 0
    /\ load_calls = 0
    /\ exit_status = -1
    /\ before_transforms = << >>
    /\ after_transforms = << >>
    /\ position_preserved = "unset"

\* simulation_app = SimulationApp(launch_config={"headless": False})
StartSimulationApp ==
    /\ pc = "parsed"
    /\ app' = "running"
    /\ window_open' = TRUE
    /\ pc' = "main"
    /\ UNCHANGED <<usd_scene, stage, coarse_approximation_type, hide_top_walls, runs,
                   usd_exists, frames, load_calls, exit_status,
                   before_transforms, after_transforms, position_preserved>>

\* if not os.path.exists(usd_file_path): ... sys.exit(1)
FileNotFound ==
    /\ pc = "main"
    /\ ~ usd_exists
    /\ exit_status' = 1
    /\ pc' = "exited"
    /\ UNCHANGED <<usd_scene, stage, coarse_approximation_type, hide_top_walls, runs,
                   usd_exists, app, window_open, frames, load_calls,
                   before_transforms, after_transforms, position_preserved>>

\* setup_infinigen_scene returns; load_ok is whether load_env raised (caught)
SetupScene ==
    /\ pc = "main"
    /\ usd_exists
    /\ \E load_ok \in BOOLEAN :
          LET loaded  == IF load_ok THEN usd_scene ELSE EmptyStage
              initial == capture_transforms(loaded, 0)
              final   == modify_environment(loaded, 0, coarse_approximation_type,
                                            hide_top_walls)
              after   == capture_transforms(final, 0)
          IN  /\ stage' = final
              /\ before_transforms' = initial
              /\ after_transforms' = after
              /\ position_preserved' = verify_positions_unchanged(initial, after)
    /\ load_calls' = load_calls + 1
    /\ runs' = runs + 1
    /\ pc' = "loop"
    /\ UNCHANGED <<usd_scene, coarse_approximation_type, hide_top_walls,
                   usd_exists, app, window_open, frames, exit_status>>

\* an engine call of setup_infinigen_scene raises: except Exception ... sys.exit(1)
SetupRaises ==
    /\ pc = "main"
    /\ usd_exists
    /\ \E reached_load \in BOOLEAN :
          /\ load_calls' = IF reached_load THEN load_calls + 1 ELSE load_calls
          /\ stage' = IF reached_load THEN usd_scene ELSE EmptyStage
    /\ exit_status' = 1
    /\ pc' = "exited"
    /\ UNCHANGED <<usd_scene, coarse_approximation_type, hide_top_walls, runs,
                   usd_exists, app, window_open, frames,
                   before_transforms, after_transforms, position_preserved>>

\* one iteration of while simulation_app.is_running(): ... simulation_app.update()
ViewerUpdate ==
    /\ pc = "loop"
    /\ window_open
    /\ frames < MaxFrames
    /\ frames' = frames + 1
    /\ window_open' \in BOOLEAN
    /\ UNCHANGED <<usd_scene, stage, coarse_approximation_type, hide_top_walls, runs,
                   usd_exists, pc, app, load_calls, exit_status,
                   before_transforms, after_transforms, position_preserved>>

\* the loop ends: print("=== EXIT PROGRAM ==="); simulation_app.close()
ExitProgram ==
    /\ pc = "loop"
    /\ ~ window_open
    /\ app' = "closed"
    /\ exit_status' = 0
    /\ pc' = "exited"
    /\ UNCHANGED <<usd_scene, stage, coarse_approximation_type, hide_top_walls, runs,
                   usd_exists, window_open, frames, load_calls,
                   before_transforms, after_transforms, position_preserved>>

NextMain ==
    \/ StartSimulationApp
    \/ FileNotFound
    \/ SetupScene
    \/ SetupRaises
    \/ ViewerUpdate
    \/ ExitProgram

SpecMain == InitMain /\ [][NextMain]_vars

Spec == SpecPass

(**************************** properties ***********************************)
Prims == DOMAIN stage
HasFineName(p) == AnyIn(fine_collider_types, p.name)
HasRigidName(p) == AnyIn(rigid_body_types, p.name)
HasLightName(p) == AnyIn(light_markers, p.name)
HasTopWallName(p) == AnyIn(top_wall_markers, p.name)
PassDone == pc = "pass" /\ runs >= 1

\* the prim carries the markers of the strategy and of no other strategy
CarriesOnly(p, strategy) ==
    IF strategy = "triangleMesh"
    THEN PhysxTriangleMeshCollisionAPI \in p.apis /\ MeshCollisionAPI \notin p.apis
    ELSE /\ MeshCollisionAPI \in p.apis
         /\ p.approximation = strategy
         /\ PhysxTriangleMeshCollisionAPI \notin p.apis

\* the prim carries the markers of the strategy (others may be present)
Carries(p, strategy) ==
    /\ CollisionAPI \in p.apis
    /\ p.collisionEnabled = TRUE
    /\ IF strategy = "triangleMesh"
       THEN PhysxTriangleMeshCollisionAPI \in p.apis
       ELSE MeshCollisionAPI \in p.apis /\ p.approximation = strategy

\* C1: after a run of modify_environment, every mesh whose name contains a
\* fine-collider marker carries the precise triangle-mesh collision marker,
\* whatever the default strategy is.
C1_FineMeshIsTriangleMesh ==
    PassDone =>
        \A n \in Prims :
            (IsA_Mesh(stage[n]) /\ HasFineName(stage[n]))
                => PhysxTriangleMeshCollisionAPI \in stage[n].apis

C1_Witness ==
    /\ PassDone
    /\ coarse_approximation_type = "convexHull"
    /\ \E n \in Prims :
          /\ IsA_Mesh(stage[n])
          /\ stage[n].name = <<"rug", "_floor", "_01">>
          /\ PhysxTriangleMeshCollisionAPI \in stage[n].apis

\* C2: after a run of modify_environment, every mesh whose name contains no
\* fine-collider marker carries the default strategy and no other collision
\* approximation.
C2_CoarseMeshHasOnlyDefault ==
    PassDone =>
        \A n \in Prims :
            (IsA_Mesh(stage[n]) /\ ~ HasFineName(stage[n]))
                => CarriesOnly(stage[n], coarse_approximation_type)

\* C3: starting from a tree without capability markers, after a run a mesh
\* has rigid-body dynamics iff its name contains a rigid-body marker, and
\* such a mesh carries its collision markers (fine or default) as well.
C3_RigidBodyIffRigidName ==
    PassDone =>
        \A n \in Prims :
            IsA_Mesh(stage[n]) =>
                /\ (RigidBodyAPI \in stage[n].apis) <=> HasRigidName(stage[n])
                /\ (RigidBodyAPI \in stage[n].apis) =>
                      /\ stage[n].rigidBodyEnabled = TRUE
                      /\ Carries(stage[n],
                                 IF HasFineName(stage[n]) THEN "triangleMesh"
                                 ELSE coarse_approximation_type)

C3_Witness ==
    /\ PassDone
    /\ coarse_approximation_type = "convexHull"
    /\ \E n \in Prims :
          /\ IsA_Mesh(stage[n])
          /\ stage[n].name = <<"Chair", "_03">>
          /\ RigidBodyAPI \in stage[n].apis
          /\ stage[n].approximation = "convexHull"
    /\ \E n \in Prims :
          /\ IsA_Mesh(stage[n])
          /\ ~ HasRigidName(stage[n])
          /\ RigidBodyAPI \notin stage[n].apis

\* C4: the pass leaves translate, rotate, scale and orient of every prim as
\* they were and neither adds nor removes prims (names, types and parents
\* stay as imported as well).
C4_TransformsUntouched ==
    pc = "pass" =>
        /\ DOMAIN stage = DOMAIN usd_scene
        /\ \A n \in Prims :
              /\ stage[n].xform = usd_scene[n].xform
              /\ stage[n].name = usd_scene[n].name
              /\ stage[n].type = usd_scene[n].type
              /\ stage[n].parent = usd_scene[n].parent

C4_Witness ==
    /\ PassDone
    /\ \E n \in Prims :
          /\ HasTranslate(stage[n])
          /\ stage[n].visibility = "invisible"
          /\ usd_scene[n].visibility = "inherited"
    /\ \E n \in Prims :
          /\ HasTranslate(stage[n])
          /\ stage[n].apis # {}

\* C5: a second run of modify_environment with the same arguments changes
\* nothing (no marker, attribute or visibility flag), and no schema is
\* attached to a prim more than once.
C5_SecondRunChangesNothing ==
    [][ (pc = "pass" /\ runs >= 1) =>
            /\ stage' = stage
            /\ \A n \in DOMAIN stage' : \A s \in Schemas :
                  stage'[n].applied[s] <= 1 ]_vars

C5_Witness ==
    /\ pc = "pass"
    /\ runs = 2
    /\ \E n \in Prims :
          /\ HasRigidName(stage[n])
          /\ stage[n].applied[RigidBodyAPI] = 1
          /\ stage[n].applied[CollisionAPI] = 1
    /\ \E n \in Prims : stage[n].visibility = "invisible"

C7_MissingFileExitsBeforeEngine ==
    (pc = "exited" /\ ~ usd_exists) =>
        /\ exit_status = 1
        /\ app = "none"
        /\ load_calls = 0

\* C8: whenever the process has ended (viewer closed, missing file, or an
\* exception during setup) simulation_app.close() has been called.
C8_AppClosedOnEveryExit ==
    pc = "exited" => app = "closed"

\* two snapshot records are equal within the tolerance on translate, the
\* other fields compared exactly
EqualWithinTolerance(r1, r2) ==
    /\ Abs(r1.translate.v - r2.translate.v) < Tolerance
    /\ r1.rotation = r2.rotation
    /\ r1.scale = r2.scale
    /\ r1.orient = r2.orient

\* C9: verify_positions_unchanged returns true iff no path present in both
\* snapshots has records that differ, translate values closer than the
\* tolerance counting as equal; paths missing from after are ignored.
C9_VerifyIffEqualWithinTolerance ==
    pc = "verified" =>
        (position_preserved = TRUE <=>
            \A prim_path \in (DOMAIN before_transforms) \cap (DOMAIN after_transforms) :
                EqualWithinTolerance(before_transforms[prim_path],
                                     after_transforms[prim_path]))

\* C10: after the collider applications of one or more runs, every mesh
\* carries the markers of the strategy applied to it last (its own visit:
\* triangle mesh for a fine name, the default otherwise) and of no other
\* strategy; a precise triangle-mesh marker never sits next to a generic
\* approximation marker.
C10_OnlyLastStrategyStored ==
    PassDone =>
        \A n \in Prims :
            IsA_Mesh(stage[n]) =>
                /\ CarriesOnly(stage[n],
                               IF HasFineName(stage[n]) THEN "triangleMesh"
                               ELSE coarse_approximation_type)
                /\ ~ (/\ PhysxTriangleMeshCollisionAPI \in stage[n].apis
                      /\ MeshCollisionAPI \in stage[n].apis)
====
